---- MODULE Spec2Model ----
(***************************************************************************)
(* A model of bowling/bowling_game.py: the class BowlingGame, its two      *)
(* operations roll(pins) and score(), and the helper methods score() uses. *)
(* Python lists are modelled as sequences; the operators below keep the    *)
(* code's 0-based indices and translate them with At.                      *)
(***************************************************************************)
EXTENDS Integers, Sequences, FiniteSets

VARIABLES
    rolls,          \* self.rolls
    current_roll,   \* self.current_roll (never written after __init__)
    op,             \* the operation called last: "init", "roll" or "score"
    arg,            \* the argument of the last roll(pins) call
    result          \* how the last call ended: its exception or return value

vars == <<rolls, current_roll, op, arg, result>>

----------------------------------------------------------------------------
(* Bounds of the model and the inputs a caller chooses from.               *)

\* No caller records more than MaxRolls rolls (one past the 21 of a full game).
MaxRolls == 22

\* A free caller changes the pin count it rolls at most MaxRuns - 1 times.
MaxRuns == 2

\* Pin counts a free caller rolls: gutter, open, spare and overflow pairs,
\* a strike, and the two nearest out-of-range values.
PinChoices == {-1, 0, 5, 7, 10, 11}

IntArg(v) == [type |-> "int", val |-> v]

\* A float argument: not an int instance, whatever its value.
FloatArg(v) == [type |-> "float", val |-> v]

Args == {IntArg(v) : v \in -1 .. 11} \cup {FloatArg(5)}

\* The roll sequences the unit tests play, test_TC01 .. test_TC12, written out
\* (roll_many(18, 0) is eighteen 0s).
TC01 == <<4, 3, 0, 0, 0, 0, 0, 0, 0, 0, 0, 0, 0, 0, 0, 0, 0, 0, 0, 0>>

TC02 == <<5, 5, 5, 0, 0, 0, 0, 0, 0, 0, 0, 0, 0, 0, 0, 0, 0, 0, 0, 0>>

TC03 == <<10, 4, 3, 0, 0, 0, 0, 0, 0, 0, 0, 0, 0, 0, 0, 0, 0, 0, 0>>

TC04 == <<10, 10, 4, 2, 0, 0, 0, 0, 0, 0, 0, 0, 0, 0, 0, 0, 0, 0>>

TC05 == <<0, 0, 0, 0, 0, 0, 0, 0, 0, 0, 0, 0, 0, 0, 0, 0, 0, 0, 7, 3, 5>>

TC06 == <<0, 0, 0, 0, 0, 0, 0, 0, 0, 0, 0, 0, 0, 0, 0, 0, 0, 0, 10, 10, 10>>

TC07 == <<10, 10, 10, 10, 10, 10, 10, 10, 10, 10, 10, 10>>

TC08 == <<0, 0, 0, 0, 0, 0, 0, 0, 0, 0, 0, 0, 0, 0, 0, 0, 0, 0, 0, 0>>

TC09 == <<-1>>

TC10 == <<11>>

TC11 == <<5, 5, 5, 5, 5, 5, 5, 5, 5, 5, 5, 5, 5, 5, 5, 5, 5, 5, 5, 5, 5>>

TC12 == <<8, 5>>

TestScripts == {TC01, TC02, TC03, TC04, TC05, TC06, TC07, TC08, TC09, TC10, TC11, TC12}

IsPrefix(s, t) == Len(s) <= Len(t) /\ \A k \in 1 .. Len(s) : s[k] = t[k]

Runs(s) == Cardinality({k \in 1 .. Len(s) : k = 1 \/ s[k] # s[k - 1]})

\* The calls the modelled callers make: a test's next roll, or a free
\* caller's roll within the bounds.
CallerMayRoll(r, a) ==
    /\ Len(r) < MaxRolls
    /\ IF a.val \in PinChoices /\ Runs(Append(r, a.val)) <= MaxRuns
       THEN TRUE
       ELSE /\ a.type = "int"
            /\ \E t \in TestScripts :
                  /\ Len(r) < Len(t)
                  /\ t[Len(r) + 1] = a.val
                  /\ IsPrefix(r, t)

----------------------------------------------------------------------------
(* Outcomes of a call.                                                     *)

Returned(v) == [exc |-> "none", msg |-> "", val |-> v]

Raised(e, m) == [exc |-> e, msg |-> m, val |-> 0]

TypeErr == Raised("TypeError", "Pins must be an integer")

InvalidPinCount == Raised("ValueError", "Pins must be between 0 and 10")

FrameOverflow == Raised("ValueError", "Frame total cannot exceed 10 pins")

IndexErr == Raised("IndexError", "list index out of range")

----------------------------------------------------------------------------
(* roll(pins)                                                              *)

\* r[i] of Python, 0-based.
At(r, i) == r[i + 1]

IsInstanceInt(a) == a.type = "int"

PinsOutOfRange_Upper11(pins) == pins < 0 \/ pins > 11

PinsOutOfRange_NoLowerBound(pins) == pins > 10

PinsOutOfRange(pins) == pins < 0 \/ pins > 10

\* The while loop that counts frames: a strike consumes one roll, any other
\* first roll consumes two, until nine frames are counted or the rolls end.
RECURSIVE FrameWalk(_, _, _)
FrameWalk(r, frame, i) ==
    IF frame < 9 /\ i < Len(r)
    THEN FrameWalk(r, frame + 1, IF At(r, i) = 10 THEN i + 1 ELSE i + 2)
    ELSE [frame |-> frame, i |-> i]

CurrentFrame(r) == FrameWalk(r, 0, 0)

\* The backward scan that fills rolls_in_current_frame: from the last roll
\* down, a roll is inserted at the front when it is not a 10 or when one roll
\* was collected already, until two are collected or the rolls end.
RECURSIVE CollectBack(_, _, _)
CollectBack(r, j, acc) ==
    IF j >= 0 /\ Len(acc) < 2
    THEN CollectBack(r, j - 1,
                     IF At(r, j) # 10 \/ Len(acc) = 1
                     THEN <<At(r, j)>> \o acc
                     ELSE acc)
    ELSE acc

\* A scan that takes the last roll alone, a strike included.
RollsInCurrentFrame_LastRollOnly(r) ==
    IF Len(r) > 0 THEN <<At(r, Len(r) - 1)>> ELSE <<>>

RollsInCurrentFrame(r) == CollectBack(r, Len(r) - 1, <<>>)

\* The frame-total validation of frames 1-9.
FrameTotalExceeded(r, pins) ==
    /\ CurrentFrame(r).frame < 9
    /\ Len(r) > 0
    /\ Len(RollsInCurrentFrame(r)) = 1
    /\ RollsInCurrentFrame(r)[1] + pins > 10

\* A roll() that caps every pair of rolls, the tenth frame's too.
RollOutcome_NoTenthExemption(r, a) ==
    IF ~IsInstanceInt(a) THEN TypeErr
    ELSE IF PinsOutOfRange(a.val) THEN InvalidPinCount
    ELSE IF Len(r) > 0 /\ At(r, Len(r) - 1) # 10 /\ At(r, Len(r) - 1) + a.val > 10
         THEN FrameOverflow
    ELSE Returned(0)

\* A roll() that rejects every roll after the twenty-first.
RollOutcome_GameOver(r, a) ==
    IF ~IsInstanceInt(a) THEN TypeErr
    ELSE IF PinsOutOfRange(a.val) THEN InvalidPinCount
    ELSE IF FrameTotalExceeded(r, a.val) \/ Len(r) >= 21 THEN FrameOverflow
    ELSE Returned(0)

\* How roll(a) ends on the rolls r.
RollOutcome(r, a) ==
    IF ~IsInstanceInt(a) THEN TypeErr
    ELSE IF PinsOutOfRange(a.val) THEN InvalidPinCount
    ELSE IF FrameTotalExceeded(r, a.val) THEN FrameOverflow
    ELSE Returned(0)

\* A roll() that records the roll before it validates it.
RollsAfter_AppendFirst(r, a, out) == Append(r, a.val)

\* A roll() that inserts the new roll at the front of the list.
RollsAfter_Prepend(r, a, out) == IF out.exc = "none" THEN <<a.val>> \o r ELSE r

\* self.rolls after roll(a) ended with out: the append is the last statement.
RollsAfter(r, a, out) == IF out.exc = "none" THEN Append(r, a.val) ELSE r

Roll(a) ==
    /\ CallerMayRoll(rolls, a)
    /\ op' = "roll"
    /\ arg' = a
    /\ result' = RollOutcome(rolls, a)
    /\ rolls' = RollsAfter(rolls, a, RollOutcome(rolls, a))
    /\ UNCHANGED current_roll

----------------------------------------------------------------------------
(* score() and its helpers                                                 *)

IsStrike(r, i) == i < Len(r) /\ At(r, i) = 10

IsSpare(r, i) == i + 1 < Len(r) /\ At(r, i) + At(r, i + 1) = 10

\* sum(r[i+1 : i+3]): a slice holds the elements that exist.
StrikeBonus_OneRoll(r, i) == IF i + 1 < Len(r) THEN At(r, i + 1) ELSE 0

\* sum(r[i+1 : i+4]): a slice one roll too long.
StrikeBonus_ThreeRolls(r, i) ==
    (IF i + 1 < Len(r) THEN At(r, i + 1) ELSE 0)
    + (IF i + 2 < Len(r) THEN At(r, i + 2) ELSE 0)
    + (IF i + 3 < Len(r) THEN At(r, i + 3) ELSE 0)

StrikeBonus(r, i) ==
    (IF i + 1 < Len(r) THEN At(r, i + 1) ELSE 0)
    + (IF i + 2 < Len(r) THEN At(r, i + 2) ELSE 0)

SpareBonus_SecondRoll(r, i) == IF i + 1 < Len(r) THEN At(r, i + 1) ELSE 0

SpareBonus(r, i) == IF i + 2 < Len(r) THEN At(r, i + 2) ELSE 0

OpenFrameSum_FirstRoll(r, i) == At(r, i)

\* r[i] + r[i+1], evaluated only where both exist.
OpenFrameSum(r, i) == At(r, i) + At(r, i + 1)

\* The state of score()'s loop before its first iteration.
ScoreStart == [frame_index |-> 0, score |-> 0, exc |-> "none"]

\* A loop body that indexes its lookahead rolls, r[i+1] + r[i+2] and r[i+2],
\* and so raises IndexError where one is not recorded.
ScoreStep_StrictLookahead(r, st) ==
    IF st.exc # "none" THEN st
    ELSE IF IsStrike(r, st.frame_index)
    THEN IF st.frame_index + 2 < Len(r)
         THEN [frame_index |-> st.frame_index + 1,
               score |-> st.score + 10 + At(r, st.frame_index + 1)
                             + At(r, st.frame_index + 2),
               exc |-> "none"]
         ELSE [st EXCEPT !.exc = "IndexError"]
    ELSE IF IsSpare(r, st.frame_index)
    THEN IF st.frame_index + 2 < Len(r)
         THEN [frame_index |-> st.frame_index + 2,
               score |-> st.score + 10 + At(r, st.frame_index + 2),
               exc |-> "none"]
         ELSE [st EXCEPT !.exc = "IndexError"]
    ELSE IF st.frame_index + 1 < Len(r)
    THEN [frame_index |-> st.frame_index + 2,
          score |-> st.score + At(r, st.frame_index) + At(r, st.frame_index + 1),
          exc |-> "none"]
    ELSE [st EXCEPT !.exc = "IndexError"]

\* One iteration of the loop over the ten frames. An index past the end of
\* the list in the open-frame branch raises IndexError and ends the call.
ScoreStep(r, st) ==
    IF st.exc # "none" THEN st
    ELSE IF IsStrike(r, st.frame_index)
    THEN [frame_index |-> st.frame_index + 1,
          score |-> st.score + 10 + StrikeBonus(r, st.frame_index),
          exc |-> "none"]
    ELSE IF IsSpare(r, st.frame_index)
    THEN [frame_index |-> st.frame_index + 2,
          score |-> st.score + 10 + SpareBonus(r, st.frame_index),
          exc |-> "none"]
    ELSE IF st.frame_index + 1 < Len(r)
    THEN [frame_index |-> st.frame_index + 2,
          score |-> st.score + OpenFrameSum(r, st.frame_index),
          exc |-> "none"]
    ELSE [st EXCEPT !.exc = "IndexError"]

\* The loop's state after n iterations.
RECURSIVE ScoreLoop(_, _)
ScoreLoop(r, n) == IF n = 0 THEN ScoreStart ELSE ScoreStep(r, ScoreLoop(r, n - 1))

ScoreOf_ElevenFrames(r) ==
    IF ScoreLoop(r, 11).exc = "none"
    THEN Returned(ScoreLoop(r, 11).score)
    ELSE IndexErr

\* How score() ends on the rolls r: for _ in range(10), then return score.
ScoreOf(r) ==
    IF ScoreLoop(r, 10).exc = "none"
    THEN Returned(ScoreLoop(r, 10).score)
    ELSE IndexErr

\* A score() that pops the last roll off the list as it reads it.
Score_ConsumesRoll ==
    /\ op' = "score"
    /\ result' = ScoreOf(rolls)
    /\ rolls' = IF Len(rolls) > 0 THEN SubSeq(rolls, 1, Len(rolls) - 1) ELSE rolls
    /\ UNCHANGED <<current_roll, arg>>

Score ==
    /\ op' = "score"
    /\ result' = ScoreOf(rolls)
    /\ UNCHANGED <<rolls, current_roll, arg>>

----------------------------------------------------------------------------

Init ==
    /\ rolls = <<>>
    /\ current_roll = 0
    /\ op = "init"
    /\ arg = IntArg(0)
    /\ result = Returned(0)

Next ==
    \/ \E a \in Args : Roll(a)
    \/ Score

Spec == Init /\ [][Next]_vars

----------------------------------------------------------------------------
(* Frames as the specification's data model derives them: scanned from the *)
(* first roll, a strike closes its frame after one roll, any other first   *)
(* roll after two. These definitions state the claims; the model of the    *)
(* code above does not use them.                                           *)

\* The 0-based index at which frame k starts, k in 1 .. 11 (11: the index
\* after the tenth frame's own rolls).
RECURSIVE FrameStart(_, _)
FrameStart(r, k) ==
    IF k = 1 THEN 0
    ELSE LET s == FrameStart(r, k - 1)
         IN  IF s < Len(r) /\ At(r, s) = 10 THEN s + 1 ELSE s + 2

\* The roll at index i, 0 when it is not recorded.
RollOr0(r, i) == IF i < Len(r) THEN At(r, i) ELSE 0

\* The last roll is the first roll of one of the frames 1-9 and is no strike:
\* the next roll is that frame's second roll.
SecondRollPending(r) ==
    /\ Len(r) > 0
    /\ At(r, Len(r) - 1) # 10
    /\ \E k \in 1 .. 9 : FrameStart(r, k) = Len(r) - 1

ValidPins(a) == IsInstanceInt(a) /\ a.val \in 0 .. 10

\* Invariant I2: a two-roll frame among the first nine sums to at most 10.
FramesWithinTen(r) ==
    \A k \in 1 .. 9 :
        LET s == FrameStart(r, k)
        IN  (s + 1 < Len(r) /\ At(r, s) # 10) => At(r, s) + At(r, s + 1) <= 10

\* What frame k is worth by the scoring rules, a missing roll counting 0.
FrameValue(r, k) ==
    LET s == FrameStart(r, k)
    IN  IF RollOr0(r, s) = 10
        THEN 10 + RollOr0(r, s + 1) + RollOr0(r, s + 2)
        ELSE IF RollOr0(r, s) + RollOr0(r, s + 1) = 10
        THEN 10 + RollOr0(r, s + 2)
        ELSE RollOr0(r, s) + RollOr0(r, s + 1)

RECURSIVE FramesTotal(_, _)
FramesTotal(r, k) == IF k = 0 THEN 0 ELSE FramesTotal(r, k - 1) + FrameValue(r, k)

----------------------------------------------------------------------------
(* The claims.                                                             *)

\* C1 (frame cap): whenever the next roll is the second roll of a non-strike
\* frame among frames 1-9 with first roll a, roll(b) with 0 <= b <= 10 and
\* a + b > 10 raises the frame-total error; and so every two-roll frame among
\* the first nine whose first roll is no strike sums to at most 10.
C1_FrameCap ==
    [][ /\ ( /\ op' = "roll"
             /\ ValidPins(arg')
             /\ SecondRollPending(rolls)
             /\ At(rolls, Len(rolls) - 1) + arg'.val > 10 )
           => result' = FrameOverflow
        /\ FramesWithinTen(rolls') ]_vars

\* C2: score() returns in every reachable state, the empty game and a game
\* with a half-recorded frame included, and counts a missing roll as 0.
C2_ScoreAlwaysComputable ==
    op = "score" => result = Returned(FramesTotal(rolls, 10))

\* C3: whatever was rolled before, roll(p) with an integer p < 0 or p > 10
\* raises the pin-count error.
C3_InvalidPinCount ==
    (op = "roll" /\ IsInstanceInt(arg) /\ (arg.val < 0 \/ arg.val > 10))
        => result = InvalidPinCount

\* C3's case: an 11 rolled into a game of at least ten rolls is rejected.
C3_Witness ==
    /\ op = "roll"
    /\ arg = IntArg(11)
    /\ Len(rolls) >= 10
    /\ result = InvalidPinCount

\* C4: a roll() that raises leaves the game as it was, so every later score()
\* and roll(), which read nothing but the game, go as if it was never made.
C4_FailedRollMutatesNothing ==
    [][ (op' = "roll" /\ result'.exc # "none")
            => (rolls' = rolls /\ current_roll' = current_roll) ]_vars

\* C4's case: the 5 rolled after an 8 was rejected and only the 8 is recorded.
C4_Witness ==
    /\ op = "roll"
    /\ arg = IntArg(5)
    /\ result = FrameOverflow
    /\ rolls = <<8>>

\* The ten frames' own rolls and every bonus roll the tenth frame is owed
\* are recorded.
GameComplete(r) ==
    LET s == FrameStart(r, 10)
    IN  IF s < Len(r) /\ At(r, s) = 10 THEN Len(r) >= s + 3
        ELSE IF s + 1 < Len(r) /\ At(r, s) + At(r, s + 1) = 10 THEN Len(r) >= s + 3
        ELSE Len(r) >= s + 2

\* C5 (strike scoring): in a complete game, the loop's k-th iteration finds
\* each frame k that starts with a 10 at its start, adds 10 plus the two rolls
\* after it and moves on by one roll; test_TC03 scores 24, test_TC04 46.
C5_StrikeScoring ==
    /\ GameComplete(rolls) =>
          \A k \in 1 .. 10 :
              LET s == FrameStart(rolls, k)
                  before == ScoreLoop(rolls, k - 1)
                  after == ScoreLoop(rolls, k)
              IN  At(rolls, s) = 10 =>
                      /\ before.frame_index = s
                      /\ after.exc = "none"
                      /\ after.score - before.score
                             = 10 + RollOr0(rolls, s + 1) + RollOr0(rolls, s + 2)
                      /\ after.frame_index = s + 1
    /\ (op = "score" /\ rolls = TC03) => result = Returned(24)
    /\ (op = "score" /\ rolls = TC04) => result = Returned(46)

\* C5's case: score() was called on the two-strike game of test_TC04.
C5_Witness == op = "score" /\ rolls = TC04 /\ result = Returned(46)

\* C6 (spare scoring): in a complete game, the loop's k-th iteration finds
\* each frame k whose first roll is no 10 and whose two rolls sum to 10 at its
\* start, adds 10 plus the one roll after the frame and moves on by two rolls;
\* test_TC02 scores 20, the twenty-one 5s of test_TC11 score 150.
C6_SpareScoring ==
    /\ GameComplete(rolls) =>
          \A k \in 1 .. 10 :
              LET s == FrameStart(rolls, k)
                  before == ScoreLoop(rolls, k - 1)
                  after == ScoreLoop(rolls, k)
              IN  (At(rolls, s) # 10 /\ At(rolls, s) + At(rolls, s + 1) = 10) =>
                      /\ before.frame_index = s
                      /\ after.exc = "none"
                      /\ after.score - before.score = 10 + RollOr0(rolls, s + 2)
                      /\ after.frame_index = s + 2
    /\ (op = "score" /\ rolls = TC02) => result = Returned(20)
    /\ (op = "score" /\ rolls = TC11) => result = Returned(150)

\* C6's case: score() was called on the all-spares game of test_TC11.
C6_Witness == op = "score" /\ rolls = TC11 /\ result = Returned(150)

\* C7 (ten frames): score() of a complete game is the worth of its ten frames
\* and its loop ends right after the tenth frame's own rolls: a bonus roll
\* counts only as the lookahead of a frame, never as a frame; twelve 10s
\* score 300, test_TC06 30, test_TC05 15.
C7_ExactlyTenFrames ==
    /\ GameComplete(rolls) =>
          /\ ScoreOf(rolls) = Returned(FramesTotal(rolls, 10))
          /\ ScoreLoop(rolls, 10).frame_index = FrameStart(rolls, 11)
    /\ (op = "score" /\ rolls = TC07) => result = Returned(300)
    /\ (op = "score" /\ rolls = TC06) => result = Returned(30)
    /\ (op = "score" /\ rolls = TC05) => result = Returned(15)

\* C7's case: score() was called on the perfect game, whose last two 10s are
\* bonus rolls.
C7_Witness == op = "score" /\ rolls = TC07 /\ result = Returned(300)

RECURSIVE SumOfRolls(_)
SumOfRolls(r) == IF r = <<>> THEN 0 ELSE Head(r) + SumOfRolls(Tail(r))

\* Twenty rolls, none a 10, no frame's two rolls summing to 10.
AllFramesOpen(r) ==
    /\ Len(r) = 20
    /\ \A i \in 1 .. 20 : r[i] # 10
    /\ \A k \in 1 .. 10 : r[2 * k - 1] + r[2 * k] # 10

\* C8 (open frames): a game of twenty rolls whose frames are all open scores
\* the plain sum of its rolls; twenty 0s score 0 and test_TC01 scores 7.
C8_OpenFrameScoring ==
    /\ AllFramesOpen(rolls) => ScoreOf(rolls) = Returned(SumOfRolls(rolls))
    /\ (op = "score" /\ rolls = TC08) => result = Returned(0)
    /\ (op = "score" /\ rolls = TC01) => result = Returned(7)

\* C8's case: score() was called on the open-frame game of test_TC01.
C8_Witness ==
    op = "score" /\ rolls = TC01 /\ AllFramesOpen(rolls) /\ result = Returned(7)

\* Frames 1-9 have all their rolls recorded.
NineFramesDone(r) == FrameStart(r, 10) <= Len(r)

\* C9 (no cap in the tenth frame): once nine frames are complete, roll(p)
\* records every p in 0 .. 10, whatever the roll before it was.
C9_NoCapInTenthFrame ==
    [][ (op' = "roll" /\ ValidPins(arg') /\ NineFramesDone(rolls))
            => (result' = Returned(0) /\ rolls' = Append(rolls, arg'.val)) ]_vars

\* C9's case: after eighteen 0s the tenth frame holds 7 and 7, fourteen pins.
C9_Witness ==
    /\ op = "roll"
    /\ result = Returned(0)
    /\ Len(rolls) = 20
    /\ NineFramesDone(SubSeq(rolls, 1, 18))
    /\ rolls[19] = 7
    /\ rolls[20] = 7

\* C10 (monotonicity): around every roll() that records its roll, score()
\* returns before and after it, and returns no less after it than before.
C10_ScoreMonotone ==
    [][ (op' = "roll" /\ result'.exc = "none")
            => /\ ScoreOf(rolls).exc = "none"
               /\ ScoreOf(rolls').exc = "none"
               /\ ScoreOf(rolls').val >= ScoreOf(rolls).val ]_vars

\* C11 (append-only log): a roll() that returns makes the list one longer,
\* puts its pins last and leaves every earlier roll at its index; no step of
\* any operation removes or reorders a roll.
C11_AppendOnly ==
    [][ /\ (op' = "roll" /\ result'.exc = "none") =>
              /\ Len(rolls') = Len(rolls) + 1
              /\ rolls'[Len(rolls')] = arg'.val
              /\ \A i \in 1 .. Len(rolls) : rolls'[i] = rolls[i]
        /\ IsPrefix(rolls, rolls') ]_vars

\* C11's case: the 3 of test_TC03 was recorded after the 10 and the 4.
C11_Witness ==
    /\ op = "roll"
    /\ arg = IntArg(3)
    /\ result = Returned(0)
    /\ rolls = <<10, 4, 3>>

\* C12 (score() is a query): a score() call leaves the game as it was, and
\* called again with no roll() in between it gives the same result.
C12_ScoreIsPure ==
    [][ op' = "score" =>
            /\ rolls' = rolls
            /\ current_roll' = current_roll
            /\ (op = "score" => result' = result) ]_vars

\* C12's case: score() was called on the complete game of test_TC06.
C12_Witness == op = "score" /\ rolls = TC06 /\ result = Returned(30)

\* C13 (invariant I1): every recorded roll is an integer from 0 to 10.
C13_RollsInRange ==
    \A i \in 1 .. Len(rolls) : rolls[i] \in 0 .. 10

\* C13's case: twenty-one rolls are recorded and a roll of -1 was just
\* rejected.
C13_Witness ==
    /\ op = "roll"
    /\ arg = IntArg(-1)
    /\ result = InvalidPinCount
    /\ Len(rolls) = 21

\* C14 (no spurious rejection): roll(p) with an integer p in 0 .. 10 raises
\* only the frame-total error, and only when p is the second roll of a
\* non-strike frame among frames 1-9 whose two rolls would exceed 10; the
\* first roll of a frame is recorded, however many rolls came before.
C14_NoSpuriousRejection ==
    [][ (op' = "roll" /\ ValidPins(arg') /\ result'.exc # "none") =>
            /\ result' = FrameOverflow
            /\ SecondRollPending(rolls)
            /\ At(rolls, Len(rolls) - 1) + arg'.val > 10 ]_vars

\* C14's case: after seven strikes the 7 that opens frame 8 was recorded.
C14_Witness ==
    /\ op = "roll"
    /\ arg = IntArg(7)
    /\ result = Returned(0)
    /\ Len(rolls) = 8
    /\ rolls[7] = 10
    /\ ~SecondRollPending(SubSeq(rolls, 1, 7))

\* The ten frames have their own rolls recorded.
TenFramesRecorded(r) == FrameStart(r, 11) <= Len(r)

TenStrikes == SubSeq(TC07, 1, 10)

EighteenGuttersThenSpare == SubSeq(TC08, 1, 18) \o <<5, 5>>

\* C15 (missing lookahead counts 0): when the ten frames have their own rolls
\* but a bonus roll owed to the last strike or spare is not recorded, score()
\* returns the worth of the ten frames with each missing roll as 0; ten
\* strikes score 270, eighteen 0s then 5, 5 score 10.
C15_MissingLookaheadIsZero ==
    /\ (TenFramesRecorded(rolls) /\ ~GameComplete(rolls)) =>
          ScoreOf(rolls) = Returned(FramesTotal(rolls, 10))
    /\ (op = "score" /\ rolls = TenStrikes) => result = Returned(270)
    /\ (op = "score" /\ rolls = EighteenGuttersThenSpare) => result = Returned(10)

\* C15's case: score() was called after ten strikes, two bonus rolls short.
C15_Witness ==
    /\ op = "score"
    /\ rolls = TenStrikes
    /\ TenFramesRecorded(rolls)
    /\ ~GameComplete(rolls)
    /\ result = Returned(270)

\* C16 (score bounds): whenever score() returns, it returns a value from 0
\* to 300.
C16_ScoreBounds ==
    /\ ScoreOf(rolls).exc = "none" => ScoreOf(rolls).val \in 0 .. 300
    /\ (op = "score" /\ result.exc = "none") => result.val \in 0 .. 300

\* C16's case: score() returned the maximum, on thirteen strikes.
C16_Witness ==
    /\ op = "score"
    /\ result.exc = "none"
    /\ result.val = 300
    /\ Len(rolls) = 13

\* C17 (rolls after the end): once the game is complete, roll(p) records
\* every integer p in 0 .. 10, the twenty-second roll included, and score()
\* returns after it what it returned before it.
C17_RollsAfterTheEnd ==
    [][ (op' = "roll" /\ ValidPins(arg') /\ GameComplete(rolls)) =>
            /\ result' = Returned(0)
            /\ rolls' = Append(rolls, arg'.val)
            /\ ScoreOf(rolls).exc = "none"
            /\ ScoreOf(rolls') = ScoreOf(rolls) ]_vars

\* C17's case: a twenty-second roll, of 5 pins, was recorded after the
\* complete game of test_TC11 and the score is still 150.
C17_Witness ==
    /\ op = "roll"
    /\ result = Returned(0)
    /\ rolls = Append(TC11, 5)
    /\ GameComplete(TC11)
    /\ ScoreOf(rolls) = Returned(150)

====
